---- MODULE Spec2Model ----
(***************************************************************************)
(* Model of the ZMK pseudo-tty key-scan driver                             *)
(* (app/module/drivers/kscan/kscan_ptty.c): the line reader recv_line, the *)
(* command parser kscan_parse_command and the delayable work item whose    *)
(* handler reads one command per firing.                                   *)
(*                                                                         *)
(* A character is a one-character string; the NUL character and a failed   *)
(* uart_poll_in are the tokens NUL and FAULT.  Lines and streams are       *)
(* sequences of characters.                                                *)
(***************************************************************************)
EXTENDS Integers, Sequences, FiniteSets, TLC

VARIABLES
    callback,    \* kscan_ptty_data.callback: NULL_CB or a registered callback
    work,        \* kscan_ptty_data.work: whether a firing is pending, and its delay (ms)
    cmd_idx,     \* kscan_ptty_data.cmd_idx
    exit_after,  \* kscan_ptty_config.exit_after
    uart_in,     \* every unit the character source will deliver, in order
    uart_pos,    \* index in uart_in of the next unit uart_poll_in delivers
    proc,        \* RUNNING, or how the process ended: EXIT_0, EXIT_1 or CRASHED
    sink,        \* the invocations of the registered callback so far, in order
    consumed,    \* the lines recv_line has returned 0 for so far, in order
    cmd,         \* the buffer cmd[] of the latest call: [chars, term]
    err,         \* the value recv_line returned to the latest call
    parsed,      \* the result of the latest kscan_parse_command: [ret, args]
    last         \* the operation that produced this state

vars == <<callback, work, cmd_idx, exit_after, uart_in, uart_pos, proc, sink,
          consumed, cmd, err, parsed, last>>

-----------------------------------------------------------------------------
(* Program constants and tokens                                            *)

MAX_CMD_LEN == 128

\* event-period of the devicetree node, in milliseconds
delay_ms == 10

NUL == "NUL"
LF == "\n"
FAULT == "FAULT"

\* Return values
OK == "0"
ENODATA == "-ENODATA"
EOVERFLOW == "-EOVERFLOW"
EINVAL == "-EINVAL"

NULL_CB == "NULL"
NOT_PENDING == [pending |-> FALSE, delay |-> 0]
RUNNING == "running"
EXIT_0 == "exit(0)"
EXIT_1 == "exit(1)"
CRASHED == "crashed"
NONE == "none"

\* cmd[] before anything is stored in it
UNINIT == "uninitialized"

-----------------------------------------------------------------------------
(* Bounds of the model                                                     *)

\* how far beyond MAX_CMD_LEN the generated runs of characters go
MaxExtra == 2
\* largest absolute value of a generated integer argument
MaxAbs == 11
\* largest number of lines in a stream fed to the driver
MaxLines == 2

-----------------------------------------------------------------------------
(* The character source: uart_poll_in(uart, &c)                            *)

\* The unit the source delivers at position pos.  Past the end of the input
\* the POSIX tty keeps returning successfully with NUL (lines 77-79).
PollIn(s, pos) == IF pos > Len(s) THEN NUL ELSE s[pos]

\* The position after one poll; the idle source stays where it is.
Advance(s, pos) == IF pos > Len(s) THEN pos ELSE pos + 1

-----------------------------------------------------------------------------
(* recv_line                                                               *)

\* BufferFull with the bound one too large
BufferFull_Late(n) == n >= MAX_CMD_LEN

\* `out - buf >= MAX_CMD_LEN - 1`, n being out - buf
BufferFull(n) == n >= MAX_CMD_LEN - 1

\* `c == '\n' || c == '\0'`
IsEndOfLine(c) == c = LF \/ c = NUL

\* NoData comparing c with the wrong character
NoData_WrongChar(n, c) == n = 0 /\ c = LF

\* NoData without the test of c
NoData_AnyMarker(n, c) == n = 0

\* `out == buf && c == '\0'`, n being out - buf
NoData(n, c) == n = 0 /\ c = NUL

\* The least j in i..n with P(j)
FirstFrom(i, n, P(_)) == CHOOSE j \in i..n : P(j) /\ \A k \in i..(j - 1) : ~P(k)

\* Whether the while loop ends in its iteration k (0 the first), each earlier
\* iteration having stored one character: the poll fails, or the buffer is
\* full, or the character read ends the line.
LoopEnds(s, pos, k) ==
    LET u == PollIn(s, pos + k)
    IN  u = FAULT \/ BufferFull(k) \/ IsEndOfLine(u)

\* `*out++ = c` of the first k iterations: the characters stored in buf
Stored(s, pos, k) == SubSeq(s, pos, pos + k - 1)

\* The while loop of recv_line from position pos: the characters stored, the
\* character variable c afterwards (a failed poll leaves it as it was), the
\* position of the source afterwards, and whether the loop returned
\* -EOVERFLOW.  The loop ends by iteration MAX_CMD_LEN at the latest.
RecvLoop(s, pos) ==
    LET k == FirstFrom(0, MAX_CMD_LEN, LAMBDA j : LoopEnds(s, pos, j))
        u == PollIn(s, pos + k)
        buf == Stored(s, pos, k)
    IN  [ret |-> IF u # FAULT /\ BufferFull(k) THEN EOVERFLOW ELSE NONE,
         buf |-> buf,
         c |-> IF u # FAULT THEN u ELSE IF k = 0 THEN NUL ELSE buf[k],
         pos |-> Advance(s, pos + k)]

\* recv_line(uart, buf): the value returned, the characters stored in buf, the
\* indices at which a terminating '\0' was stored (term, empty when none was),
\* and the position of the source afterwards.
recv_line(s, pos) ==
    LET l == RecvLoop(s, pos)
    IN  IF l.ret = EOVERFLOW
        THEN [ret |-> EOVERFLOW, chars |-> l.buf, term |-> {}, pos |-> l.pos]
        ELSE IF NoData(Len(l.buf), l.c)
        THEN [ret |-> ENODATA, chars |-> l.buf, term |-> {}, pos |-> l.pos]
        ELSE [ret |-> OK, chars |-> l.buf, term |-> {Len(l.buf)}, pos |-> l.pos]

\* The C string a buffer holds: the bytes before its terminating '\0'.  A byte
\* that was never stored reads as UNINIT.
CString(b) ==
    IF b.term = {} THEN <<UNINIT>>
    ELSE LET t == CHOOSE k \in b.term : \A j \in b.term : k <= j
         IN  [i \in 1..t |-> IF i <= Len(b.chars) THEN b.chars[i] ELSE UNINIT]

-----------------------------------------------------------------------------
(* sscanf with the formats "p %d %d", "r %d %d" and "w %d"                 *)

\* isspace for the characters a line can hold
IsSpace(c) == c \in {" ", "\t"}

DigitChars == {"0", "1", "2", "3", "4", "5", "6", "7", "8", "9"}

DigitVal(c) ==
    CASE c = "0" -> 0 [] c = "1" -> 1 [] c = "2" -> 2 [] c = "3" -> 3
      [] c = "4" -> 4 [] c = "5" -> 5 [] c = "6" -> 6 [] c = "7" -> 7
      [] c = "8" -> 8 [] c = "9" -> 9

\* The first index from i on that holds no white space (Len(s) + 1 when none).
SkipSpace(s, i) ==
    FirstFrom(i, Len(s) + 1, LAMBDA j : j > Len(s) \/ ~IsSpace(s[j]))

\* The first index from i on that holds no digit (Len(s) + 1 when none).
DigitsEnd(s, i) ==
    FirstFrom(i, Len(s) + 1, LAMBDA j : j > Len(s) \/ s[j] \notin DigitChars)

\* The decimal value of the digits s[i..j], acc being the value read so far.
RECURSIVE DigitsValue(_, _, _, _)
DigitsValue(s, i, j, acc) ==
    IF i > j THEN acc ELSE DigitsValue(s, i + 1, j, 10 * acc + DigitVal(s[i]))

\* The number that starts at index j of s, j being past the white space: an
\* optional sign and at least one digit.  st is "eof" when the input ends at
\* j, "fail" when the characters there are no number, "ok" with the value and
\* the index after it otherwise.  (Values beyond the range of int are not
\* generated.)
NumberAt[s \in Seq(STRING), j \in Nat] ==
    LET neg == j <= Len(s) /\ s[j] = "-"
        k == IF j <= Len(s) /\ s[j] \in {"-", "+"} THEN j + 1 ELSE j
    IN  IF j > Len(s) THEN [st |-> "eof", val |-> 0, next |-> j]
        ELSE IF DigitsEnd(s, k) = k THEN [st |-> "fail", val |-> 0, next |-> k]
        ELSE [st |-> "ok", next |-> DigitsEnd(s, k),
              val |-> IF neg THEN 0 - DigitsValue(s, k, DigitsEnd(s, k) - 1, 0)
                             ELSE DigitsValue(s, k, DigitsEnd(s, k) - 1, 0)]

\* One %d conversion at index i: white space is skipped, then the number is
\* read.
ScanInt(s, i) == NumberAt[s, SkipSpace(s, i)]

\* sscanf(s, "<tag> %d %d", &args[0], &args[1]) for a line that starts with
\* the tag: the number of values stored (-1, EOF, when the input ends before
\* the first conversion) and args afterwards.  What follows the last
\* conversion is not looked at.
Sscanf2(s, args) ==
    LET a == ScanInt(s, 2)
        b == ScanInt(s, a.next)
    IN  IF a.st = "eof" THEN [n |-> -1, args |-> args]
        ELSE IF a.st = "fail" THEN [n |-> 0, args |-> args]
        ELSE IF b.st # "ok" THEN [n |-> 1, args |-> <<a.val, args[2]>>]
        ELSE [n |-> 2, args |-> <<a.val, b.val>>]

\* sscanf(s, "w %d", &args[0])
Sscanf1(s, args) ==
    LET a == ScanInt(s, 2)
    IN  IF a.st = "eof" THEN [n |-> -1, args |-> args]
        ELSE IF a.st = "fail" THEN [n |-> 0, args |-> args]
        ELSE [n |-> 1, args |-> <<a.val, args[2]>>]

-----------------------------------------------------------------------------
(* kscan_parse_command                                                     *)

\* cmd[0] of a C string
FirstChar(s) == IF s = <<>> THEN NUL ELSE s[1]

\* The first switch: the sscanf call the tag selects.
ScanCommand(s, args) ==
    IF FirstChar(s) = "w" THEN Sscanf1(s, args) ELSE Sscanf2(s, args)

\* CheckPressRelease without the default for args[1]
CheckPressRelease_NoDefault(tag, sc) ==
    IF sc.n \notin {1, 2} THEN [ret |-> EINVAL, args |-> sc.args]
    ELSE [ret |-> tag, args |-> sc.args]

\* The second switch for 'p' and 'r': one value stored sets args[1] to 0, two
\* are taken as they are, any other count is -EINVAL.
CheckPressRelease(tag, sc) ==
    IF sc.n = 1 THEN [ret |-> tag, args |-> <<sc.args[1], 0>>]
    ELSE IF sc.n # 2 THEN [ret |-> EINVAL, args |-> sc.args]
    ELSE [ret |-> tag, args |-> sc.args]

\* The second switch for 'w': exactly one value stored, else -EINVAL.
CheckWait(tag, sc) ==
    IF sc.n # 1 THEN [ret |-> EINVAL, args |-> sc.args]
    ELSE [ret |-> tag, args |-> sc.args]

\* kscan_parse_command with the default case of the first switch falling into
\* the press and release case for every line that is not empty
kscan_parse_command_AnyTag(s, args) ==
    LET tag == FirstChar(s)
    IN  IF tag = NUL THEN [ret |-> EINVAL, args |-> args]
        ELSE IF tag = "w" THEN CheckWait(tag, ScanCommand(s, args))
        ELSE CheckPressRelease(tag, ScanCommand(s, args))

\* kscan_parse_command(cmd, args): the value returned (the tag, or EINVAL) and
\* args afterwards.
kscan_parse_command(s, args) ==
    LET tag == FirstChar(s)
    IN  IF tag \notin {"p", "r", "w"} THEN [ret |-> EINVAL, args |-> args]
        ELSE IF tag = "w" THEN CheckWait(tag, ScanCommand(s, args))
        ELSE CheckPressRelease(tag, ScanCommand(s, args))

-----------------------------------------------------------------------------
(* The scheduling primitive and the driver API                             *)

\* k_work_schedule that gives a pending work item a new deadline
k_work_schedule_Replaces(w, delay) == [pending |-> TRUE, delay |-> delay]

\* k_work_schedule(&work, K_MSEC(delay)): a work item that is already pending
\* keeps its deadline; otherwise it becomes pending with the delay.
k_work_schedule(w, delay) ==
    IF w.pending THEN w ELSE [pending |-> TRUE, delay |-> delay]

\* k_work_cancel_delayable that leaves a pending firing in place
k_work_cancel_delayable_Keeps(w) == w

\* k_work_cancel_delayable(&work)
k_work_cancel_delayable(w) == NOT_PENDING

\* The callbacks a caller may register
Callbacks == {"sink_a", "sink_b"}

\* cmd[] of a handler that has not run
NoBuffer == [chars |-> <<>>, term |-> {}]

\* kscan_ptty_configure that stores the callback before it tests it
kscan_ptty_configure_StoresFirst(cb) ==
    /\ proc = RUNNING
    /\ callback' = cb
    /\ IF cb = NULL_CB
       THEN /\ last' = [op |-> "configure", ret |-> EINVAL, from |-> uart_pos]
            /\ UNCHANGED work
       ELSE /\ work' = k_work_schedule(work, delay_ms)
            /\ last' = [op |-> "configure", ret |-> OK, from |-> uart_pos]
    /\ UNCHANGED <<cmd_idx, exit_after, uart_in, uart_pos, proc, sink, consumed,
                   cmd, err, parsed>>

\* kscan_ptty_configure(dev, cb)
kscan_ptty_configure(cb) ==
    /\ proc = RUNNING
    /\ IF cb = NULL_CB
       THEN /\ last' = [op |-> "configure", ret |-> EINVAL, from |-> uart_pos]
            /\ UNCHANGED <<callback, work>>
       ELSE /\ callback' = cb
            /\ work' = k_work_schedule(work, delay_ms)
            /\ last' = [op |-> "configure", ret |-> OK, from |-> uart_pos]
    /\ UNCHANGED <<cmd_idx, exit_after, uart_in, uart_pos, proc, sink, consumed,
                   cmd, err, parsed>>

\* kscan_ptty_enable_callback that also rewinds the character source
kscan_ptty_enable_callback_Rewinds ==
    /\ proc = RUNNING
    /\ work' = k_work_schedule(work, delay_ms)
    /\ uart_pos' = 1
    /\ last' = [op |-> "enable", ret |-> OK, from |-> uart_pos]
    /\ UNCHANGED <<callback, cmd_idx, exit_after, uart_in, proc, sink,
                   consumed, cmd, err, parsed>>

\* kscan_ptty_enable_callback(dev)
kscan_ptty_enable_callback ==
    /\ proc = RUNNING
    /\ work' = k_work_schedule(work, delay_ms)
    /\ last' = [op |-> "enable", ret |-> OK, from |-> uart_pos]
    /\ UNCHANGED <<callback, cmd_idx, exit_after, uart_in, uart_pos, proc, sink,
                   consumed, cmd, err, parsed>>

\* kscan_ptty_disable_callback(dev)
kscan_ptty_disable_callback ==
    /\ proc = RUNNING
    /\ work' = k_work_cancel_delayable(work)
    /\ last' = [op |-> "disable", ret |-> OK, from |-> uart_pos]
    /\ UNCHANGED <<callback, cmd_idx, exit_after, uart_in, uart_pos, proc, sink,
                   consumed, cmd, err, parsed>>

-----------------------------------------------------------------------------
(* kscan_ptty_work_handler                                                 *)

\* args[] as the handler declares it
InitialArgs == <<-1, -1>>

\* The result of a parse that did not take place
NotParsed == [ret |-> NONE, args |-> InitialArgs]

\* `data->callback(dev, args[0], args[1], is_press)`: the invocation the sink
\* sees.
Invocation(cb, p) ==
    [cb |-> cb, row |-> p.args[1], col |-> p.args[2], press |-> (p.ret = "p")]

\* Reschedule with the default delay after a wait command too
Reschedule_AlwaysDefault(p) ==
    IF p.ret \in {"p", "r", "w"} THEN k_work_schedule(NOT_PENDING, delay_ms)
    ELSE NOT_PENDING

\* Reschedule with the default delay after a rejected line too
Reschedule_AfterInvalid(p) ==
    IF p.ret = "w" THEN k_work_schedule(NOT_PENDING, p.args[1])
    ELSE IF p.ret \in {"p", "r", EINVAL} THEN k_work_schedule(NOT_PENDING, delay_ms)
    ELSE NOT_PENDING

\* The delay the handler reschedules with after a command, NOT_PENDING when it
\* returns without rescheduling.
Reschedule(p) ==
    IF p.ret = "w" THEN k_work_schedule(NOT_PENDING, p.args[1])
    ELSE IF p.ret \in {"p", "r"} THEN k_work_schedule(NOT_PENDING, delay_ms)
    ELSE NOT_PENDING

\* ReadOutcome with the exit-after flag not consulted
ReadOutcome_IgnoresFlag(ret, exitAfter) ==
    IF ret = ENODATA THEN EXIT_0
    ELSE IF ret = EOVERFLOW THEN EXIT_1
    ELSE IF ret = OK THEN RUNNING
    ELSE EXIT_1

\* ReadOutcome with -EOVERFLOW falling into the -ENODATA case
ReadOutcome_OverflowAsNoData(ret, exitAfter) ==
    IF ret \in {ENODATA, EOVERFLOW} THEN (IF exitAfter THEN EXIT_0 ELSE RUNNING)
    ELSE IF ret = OK THEN RUNNING
    ELSE EXIT_1

\* The first switch of the handler on the value of recv_line: the exit code of
\* the process, RUNNING when the handler goes on or returns.
ReadOutcome(ret, exitAfter) ==
    IF ret = ENODATA THEN (IF exitAfter THEN EXIT_0 ELSE RUNNING)
    ELSE IF ret = EOVERFLOW THEN EXIT_1
    ELSE IF ret = OK THEN RUNNING
    ELSE EXIT_1

\* cmd[] as the handler leaves it: on -EOVERFLOW it stores '\0' in the last
\* byte before logging.
HandlerBuffer(r) ==
    IF r.ret = EOVERFLOW THEN [chars |-> r.chars, term |-> {MAX_CMD_LEN - 1}]
    ELSE [chars |-> r.chars, term |-> r.term]

\* One firing of the work item: the handler runs from its first line to its
\* return or to the end of the process.  Calling a null callback ends the
\* process abnormally.
kscan_ptty_work_handler ==
    /\ proc = RUNNING
    /\ work.pending
    /\ \E r \in {recv_line(uart_in, uart_pos)} :
       \E b \in {HandlerBuffer(r)} :
       \E line \in {CString(b)} :
       \E p \in {IF r.ret = OK THEN kscan_parse_command(line, InitialArgs)
                 ELSE NotParsed} :
           /\ uart_pos' = r.pos
           /\ cmd' = b
           /\ err' = r.ret
           /\ parsed' = p
           /\ consumed' = IF r.ret = OK THEN Append(consumed, line) ELSE consumed
           /\ cmd_idx' = IF p.ret \in {"p", "r", "w"} THEN cmd_idx + 1 ELSE cmd_idx
           /\ IF p.ret \in {"p", "r"} /\ callback = NULL_CB
              THEN proc' = CRASHED /\ work' = NOT_PENDING /\ sink' = sink
              ELSE /\ proc' = ReadOutcome(r.ret, exit_after)
                   /\ sink' = IF p.ret \in {"p", "r"}
                              THEN Append(sink, Invocation(callback, p))
                              ELSE sink
                   /\ work' = Reschedule(p)
           /\ last' = [op |-> "tick", ret |-> OK, from |-> uart_pos]
    /\ UNCHANGED <<callback, exit_after, uart_in>>

-----------------------------------------------------------------------------
(* Inputs                                                                  *)

DigitChar(d) == <<"0", "1", "2", "3", "4", "5", "6", "7", "8", "9">>[d + 1]

\* The decimal digits of a natural number, as printf("%d") writes them
RECURSIVE NatChars(_)
NatChars(n) ==
    IF n < 10 THEN <<DigitChar(n)>>
    ELSE Append(NatChars(n \div 10), DigitChar(n % 10))

\* An integer as printf("%d") writes it
IntChars(n) == IF n < 0 THEN <<"-">> \o NatChars(0 - n) ELSE NatChars(n)

\* n characters none of which ends a line; neighbours differ
Fill(n) == [i \in 1..n |-> <<"a", "b", "c">>[((i - 1) % 3) + 1]]

\* n blanks
Blanks(n) == [i \in 1..n |-> " "]

\* The concatenation of the lines of ls, each followed by '\n'
RECURSIVE Lines(_)
Lines(ls) == IF ls = <<>> THEN <<>> ELSE Head(ls) \o <<LF>> \o Lines(Tail(ls))

\* The sequences over S of length at most n
SeqsUpTo(S, n) == UNION {[1..k -> S] : k \in 0..n}

ArgInts == (0 - MaxAbs)..MaxAbs

\* Streams for the line reader: an optional earlier line, a run of n
\* characters, what ends the run (a terminator, the sentinel, the end of the
\* input or a failed poll) and an optional later line.
FillLengths == (0..(MAX_CMD_LEN + MaxExtra)) \cup {200}
LineEnds == {<<LF>>, <<NUL>>, <<>>, <<FAULT>>}
LineHeads == {<<>>, <<"w", " ", "5", LF>>}
LineTails == {<<>>, <<"p", " ", "1", LF>>}
LineInputs ==
    {h \o Fill(n) \o e \o t : h \in LineHeads, n \in FillLengths,
                              e \in LineEnds, t \in LineTails}

\* Lines for the parser: a tag, what separates it from the first argument, and
\* up to three argument tokens separated by one blank.  The first two tokens
\* are integers or malformed numbers, the third an integer or a word.
Tags == {"p", "r", "w", "x"}
Gaps == {<<>>, <<" ">>, <<" ", "\t">>}
ArgTokens == {IntChars(n) : n \in ArgInts} \cup {<<"x">>, <<"-">>, <<"+", "7">>, <<"0", "7">>}
ExtraTokens == {<<"3">>, <<"x">>}
ArgLists ==
    {<<>>}
    \cup {g \o a : g \in Gaps, a \in ArgTokens}
    \cup {g \o a \o <<" ">> \o b : g \in Gaps, a \in ArgTokens, b \in ArgTokens}
    \cup {g \o a \o <<" ">> \o b \o <<" ">> \o c :
            g \in Gaps, a \in ArgTokens, b \in ArgTokens, c \in ExtraTokens}
ParseInputs == {<<>>} \cup {<<t>> \o a : t \in Tags, a \in ArgLists}

\* Lines for the driver.  PaddedPress(n) is the press command "p 1 2" made n
\* characters long by blanks after the tag.  Wait commands carry a
\* non-negative duration.
PaddedPress(n) == <<"p">> \o Blanks(n - 4) \o <<"1", " ", "2">>
ShortLines ==
    {<<"p", " ", "1", " ", "2">>, <<"r", " ", "1", " ", "2">>, <<"w", " ", "5", "0">>,
     <<"p", " ", "3">>}
ValidLines == ShortLines
InvalidLines == {<<"x", " ", "1", " ", "2">>, <<>>}
DriverLines == ValidLines \cup InvalidLines

\* What a stream of short lines may end with: nothing, a press command of
\* MAX_CMD_LEN - 2 or MAX_CMD_LEN - 1 characters, or MAX_CMD_LEN or 200
\* characters without a terminator.
ValidTails ==
    {<<>>, Lines(<<PaddedPress(MAX_CMD_LEN - 2)>>), Lines(<<PaddedPress(MAX_CMD_LEN - 1)>>)}
DriverTails == ValidTails \cup {Fill(MAX_CMD_LEN), Fill(200)}

\* "p 1 2\n", "w 50\n", "r 1 2\n"
EndToEnd ==
    Lines(<<<<"p", " ", "1", " ", "2">>, <<"w", " ", "5", "0">>,
            <<"r", " ", "1", " ", "2">>>>)

DriverInputs ==
    {Lines(ls) \o t : ls \in SeqsUpTo(DriverLines, MaxLines), t \in DriverTails}
    \cup {EndToEnd}
ValidInputs ==
    {Lines(ls) \o t : ls \in SeqsUpTo(ValidLines, MaxLines), t \in ValidTails}
    \cup {EndToEnd}

-----------------------------------------------------------------------------
(* Specifications                                                          *)

\* The state kscan_ptty_init leaves, with the source holding the input s
Start(s, exitAfter) ==
    /\ callback = NULL_CB
    /\ work = NOT_PENDING
    /\ cmd_idx = 0
    /\ exit_after = exitAfter
    /\ uart_in = s
    /\ uart_pos = 1
    /\ proc = RUNNING
    /\ sink = <<>>
    /\ consumed = <<>>
    /\ cmd = NoBuffer
    /\ err = NONE
    /\ parsed = NotParsed
    /\ last = [op |-> "init", ret |-> OK, from |-> 1]

\* The driver: any input, any order of configure, enable, disable and firings
Init == \E s \in DriverInputs, x \in BOOLEAN : Start(s, x)

Next ==
    \/ \E cb \in Callbacks \cup {NULL_CB} : kscan_ptty_configure(cb)
    \/ kscan_ptty_enable_callback
    \/ kscan_ptty_disable_callback
    \/ kscan_ptty_work_handler

Spec == Init /\ [][Next]_vars

\* The driver on a stream of valid commands with exit-after set and no
\* disable call; the work queue runs every pending firing.
InitLive == \E s \in ValidInputs : Start(s, TRUE)

NextLive ==
    \/ \E cb \in Callbacks \cup {NULL_CB} : kscan_ptty_configure(cb)
    \/ kscan_ptty_enable_callback
    \/ kscan_ptty_work_handler

LiveSpec == InitLive /\ [][NextLive]_vars /\ WF_vars(kscan_ptty_work_handler)

\* recv_line alone, called again and again on one input
CallRecvLine ==
    /\ \E r \in {recv_line(uart_in, uart_pos)} :
       \E b \in {[chars |-> r.chars, term |-> r.term]} :
           /\ uart_pos' = r.pos
           /\ cmd' = b
           /\ err' = r.ret
           /\ consumed' = IF r.ret = OK THEN Append(consumed, CString(b)) ELSE consumed
    /\ last' = [op |-> "recv_line", ret |-> OK, from |-> uart_pos]
    /\ UNCHANGED <<callback, work, cmd_idx, exit_after, uart_in, proc, sink, parsed>>

InitLine == \E s \in LineInputs : Start(s, FALSE)

SpecLine == InitLine /\ [][CallRecvLine]_vars

\* kscan_parse_command alone, called on one line
CallParse ==
    /\ last.op = "init"
    /\ \E line \in {CString(cmd)} : parsed' = kscan_parse_command(line, InitialArgs)
    /\ last' = [op |-> "parse", ret |-> OK, from |-> uart_pos]
    /\ UNCHANGED <<callback, work, cmd_idx, exit_after, uart_in, uart_pos, proc,
                   sink, consumed, cmd, err>>

InitParse ==
    \E l \in ParseInputs :
        /\ callback = NULL_CB /\ work = NOT_PENDING /\ cmd_idx = 0
        /\ exit_after = FALSE /\ uart_in = <<>> /\ uart_pos = 1 /\ proc = RUNNING
        /\ sink = <<>> /\ consumed = <<>> /\ err = OK /\ parsed = NotParsed
        /\ last = [op |-> "init", ret |-> OK, from |-> 1]
        /\ cmd = [chars |-> l, term |-> {Len(l)}]

SpecParse == InitParse /\ [][CallParse]_vars

-----------------------------------------------------------------------------
(* Vocabulary of the properties                                            *)

\* The arguments of the sink invocations so far
SinkArgs == [i \in 1..Len(sink) |-> <<sink[i].row, sink[i].col, sink[i].press>>]

\* The complete lines of s: the runs of characters each ended by '\n'
RECURSIVE SplitLines(_)
SplitLines(s) ==
    IF \A j \in 1..Len(s) : s[j] # LF THEN <<>>
    ELSE LET e == FirstFrom(1, Len(s), LAMBDA j : s[j] = LF)
         IN  <<SubSeq(s, 1, e - 1)>> \o SplitLines(SubSeq(s, e + 1, Len(s)))

\* The lines the source has delivered in full so far
LinesRead == SplitLines(SubSeq(uart_in, 1, uart_pos - 1))

\* The (row, col, is_press) of the press and release commands among ls, in order
RECURSIVE Commands(_)
Commands(ls) ==
    IF ls = <<>> THEN <<>>
    ELSE LET p == kscan_parse_command(Head(ls), InitialArgs)
         IN  (IF p.ret \in {"p", "r"}
              THEN <<<<p.args[1], p.args[2], p.ret = "p">>>>
              ELSE <<>>) \o Commands(Tail(ls))

\* The number of characters from position i of s on before the first '\n',
\* NUL or failed poll (or the end of s)
RunLength(s, i) ==
    FirstFrom(i, Len(s) + 1, LAMBDA j : j > Len(s) \/ s[j] \in {LF, NUL, FAULT}) - i

\* This state was produced by a firing of the work item
Ticked == last.op = "tick"

-----------------------------------------------------------------------------
(* C1 *)

\* C1: in every state the sequence of sink invocations is the sequence of
\* press and release commands among the lines read so far, in stream order,
\* each with the (row, col, is_press) of its line.
C1_SinkFollowsStream == SinkArgs = Commands(LinesRead)

-----------------------------------------------------------------------------
(* C2 *)

\* Every press and release command of the stream has been delivered
AllDelivered == SinkArgs = Commands(SplitLines(uart_in))

\* C2: on a stream of valid newline-terminated commands with exit-after set, no
\* disable call and every pending firing run, once a callback is registered
\* the process eventually exits with code 0, every press and release command
\* of the stream delivered.
C2_EventuallyExitsZero == (callback # NULL_CB) ~> (proc = EXIT_0 /\ AllDelivered)

-----------------------------------------------------------------------------
(* C3 *)

\* C3: a firing whose line read returns -ENODATA ends the process with code 0
\* when exit-after is set; otherwise it invokes no callback, leaves no firing
\* pending and the process keeps running.
C3_EmptyExitsOrIdles ==
    [][(last'.op = "tick" /\ err' = ENODATA) =>
         /\ sink' = sink
         /\ IF exit_after
            THEN proc' = EXIT_0
            ELSE proc' = RUNNING /\ ~work'.pending]_vars

C3_Witness ==
    /\ Ticked /\ err = ENODATA /\ ~exit_after
    /\ proc = RUNNING /\ ~work.pending /\ sink # <<>>

-----------------------------------------------------------------------------
(* C4 *)

\* C4: a firing whose line read returns -EOVERFLOW ends the process with code 1
\* whatever exit-after is, without invoking the sink; the sink is not invoked
\* once the process has ended; and on a stream that starts with 200
\* non-terminator characters, once the source has been read the process has
\* ended with code 1 and the sink was never invoked.
C4_OverflowExitsOne ==
    /\ [][(last'.op = "tick" /\ err' = EOVERFLOW) =>
            (proc' = EXIT_1 /\ sink' = sink)]_vars
    /\ [][proc # RUNNING => sink' = sink]_vars
    /\ []((RunLength(uart_in, 1) >= 200 /\ uart_pos > 1) =>
            (proc = EXIT_1 /\ sink = <<>>))

C4_Witness ==
    /\ RunLength(uart_in, 1) >= 200 /\ ~exit_after
    /\ Ticked /\ err = EOVERFLOW /\ proc = EXIT_1 /\ sink = <<>>

-----------------------------------------------------------------------------
(* Vocabulary of the line reader's properties                              *)

\* This state was produced by a call of recv_line alone
LineRead == last.op = "recv_line"

\* The first unit the latest call polled, and the length of the run of
\* ordinary characters it found there
FirstUnit == PollIn(uart_in, last.from)
Run == RunLength(uart_in, last.from)

\* The unit that follows that run
RunEnd == PollIn(uart_in, last.from + Run)

\* The latest call returned 0 with the characters l in the buffer
ReturnedLine(l) == err = OK /\ CString(cmd) = l

-----------------------------------------------------------------------------
(* C5 *)

\* C5: a run of n ordinary characters, 1 <= n <= 127, followed by '\n' or NUL
\* makes recv_line return 0 with exactly those characters; and recv_line
\* returns -EOVERFLOW only when more than 127 characters came without a
\* terminator.
C5_LinesUpTo127 ==
    LineRead =>
        /\ (1 <= Run /\ Run <= MAX_CMD_LEN - 1 /\ IsEndOfLine(RunEnd)) =>
               ReturnedLine(SubSeq(uart_in, last.from, last.from + Run - 1))
        /\ err = EOVERFLOW => Run > MAX_CMD_LEN - 1

-----------------------------------------------------------------------------
(* C6 *)

\* C6: when the first unit recv_line reads is NUL, nothing accumulated, it
\* returns -ENODATA, not 0 with an empty line.
C6_SentinelFirstIsEmpty ==
    (LineRead /\ FirstUnit = NUL) => (err = ENODATA /\ ~ReturnedLine(<<>>))

C6_Witness ==
    /\ LineRead /\ last.from <= Len(uart_in) /\ uart_in[last.from] = NUL
    /\ err = ENODATA

-----------------------------------------------------------------------------
(* C7 *)

\* C7 as stated: an end-of-line marker read first, '\n' or NUL alike, makes
\* recv_line return -ENODATA, and recv_line never returns 0 with an empty line.
C7_AnyMarkerFirstIsEmpty ==
    LineRead =>
        /\ IsEndOfLine(FirstUnit) => err = ENODATA
        /\ ~ReturnedLine(<<>>)

\* C7 amended: NUL read first makes recv_line return -ENODATA; '\n' read first
\* (a blank line) makes it return 0 with an empty line, having consumed the
\* '\n' alone; and recv_line returns 0 with an empty line in no other case.
C7_OnlySentinelFirstIsEmpty ==
    LineRead =>
        /\ FirstUnit = NUL => err = ENODATA
        /\ FirstUnit = LF => (ReturnedLine(<<>>) /\ uart_pos = last.from + 1)
        /\ ReturnedLine(<<>>) => FirstUnit = LF

C7_Witness ==
    /\ LineRead /\ FirstUnit = LF /\ ReturnedLine(<<>>)
    /\ last.from > 1

-----------------------------------------------------------------------------
(* C8 *)

\* C8: a firing that finds MAX_CMD_LEN or more characters without a terminator
\* gets -EOVERFLOW from recv_line, and the string the handler logs is the
\* first MAX_CMD_LEN - 1 of them; nothing is stored outside the MAX_CMD_LEN
\* bytes of cmd[].
C8_OverflowLogsFirst127 ==
    (Ticked /\ Run >= MAX_CMD_LEN) =>
        /\ err = EOVERFLOW
        /\ CString(cmd) = SubSeq(uart_in, last.from, last.from + MAX_CMD_LEN - 2)
        /\ Len(cmd.chars) = MAX_CMD_LEN - 1
        /\ cmd.term = {MAX_CMD_LEN - 1}

C8_Witness ==
    /\ Ticked /\ Run = MAX_CMD_LEN /\ last.from > 1
    /\ err = EOVERFLOW /\ Len(CString(cmd)) = MAX_CMD_LEN - 1

-----------------------------------------------------------------------------
(* Vocabulary of the parser's properties                                   *)

\* This state was produced by a call of kscan_parse_command alone
Parsed == last.op = "parse"

\* The line the parser was given
Line == CString(cmd)

\* The command lines "<tag> R C" and "<tag> R"
TwoArgs(tag, R, C) == <<tag, " ">> \o IntChars(R) \o <<" ">> \o IntChars(C)
OneArg(tag, R) == <<tag, " ">> \o IntChars(R)

\* Line l starts with the characters h
StartsWith(l, h) == Len(l) >= Len(h) /\ SubSeq(l, 1, Len(h)) = h

-----------------------------------------------------------------------------
(* C9 *)

\* C9: for all integers R and C, "p R C" parses to press (R, C), "r R C" to
\* release (R, C), and "p R" and "r R" to press and release (R, 0).
C9_PressReleaseParsed ==
    Parsed =>
        \A l \in {Line} : \A tag \in {"p", "r"}, R \in ArgInts :
            StartsWith(l, OneArg(tag, R)) =>
                /\ l = OneArg(tag, R) => parsed = [ret |-> tag, args |-> <<R, 0>>]
                /\ \A C \in ArgInts :
                       l = TwoArgs(tag, R, C) => parsed = [ret |-> tag, args |-> <<R, C>>]

C9_Witness ==
    /\ Parsed /\ Line = OneArg("r", 0 - 3)
    /\ parsed = [ret |-> "r", args |-> <<0 - 3, 0>>]

-----------------------------------------------------------------------------
(* C10 *)

\* C10: for all integers D, "w D" parses to wait D; a 'w' line with no argument
\* or with two or three integer arguments is rejected with -EINVAL.
C10_WaitTakesOneArg ==
    Parsed =>
        \A l \in {Line} :
            /\ l = <<"w">> => parsed.ret = EINVAL
            /\ \A D \in ArgInts :
                   StartsWith(l, OneArg("w", D)) =>
                       /\ l = OneArg("w", D) => parsed = [ret |-> "w", args |-> <<D, -1>>]
                       /\ \A E \in ArgInts :
                              l \in {TwoArgs("w", D, E), TwoArgs("w", D, E) \o <<" ", "3">>}
                                  => parsed.ret = EINVAL

-----------------------------------------------------------------------------
(* C11 *)

\* The line the latest firing got from recv_line
TickLine == CString(cmd)

\* C11: a firing that reads a line whose first character is not 'p', 'r' or
\* 'w' (the zero-length line included) gets -EINVAL from the parser and does
\* not invoke the sink.
C11_UnknownTagRejected ==
    [][(last'.op = "tick" /\ err' = OK
        /\ FirstChar(CString(cmd')) \notin {"p", "r", "w"}) =>
           (parsed'.ret = EINVAL /\ sink' = sink)]_vars

C11_Witness ==
    /\ Ticked /\ err = OK /\ TickLine = <<"x", " ", "1", " ", "2">>
    /\ parsed.ret = EINVAL /\ callback # NULL_CB /\ Len(sink) = 1

C11_WitnessBlank ==
    /\ Ticked /\ err = OK /\ TickLine = <<>>
    /\ parsed.ret = EINVAL /\ callback # NULL_CB

-----------------------------------------------------------------------------
(* C12 *)

\* C12: a 'p' or 'r' line with no argument, with three integer arguments
\* ("p 1 2 3") or with a word in the place of an argument ("p x", "p 1 x") is
\* rejected with -EINVAL.
C12_PressReleaseStrict ==
    Parsed =>
        \A l \in {Line} : \A tag \in {"p", "r"} :
            /\ l \in {<<tag>>, <<tag, " ", "x">>} => parsed.ret = EINVAL
            /\ \A R \in ArgInts :
                   StartsWith(l, OneArg(tag, R)) =>
                       /\ l = OneArg(tag, R) \o <<" ", "x">> => parsed.ret = EINVAL
                       /\ \A C \in ArgInts :
                              l = TwoArgs(tag, R, C) \o <<" ", "3">> => parsed.ret = EINVAL

\* The part of C12 the parser satisfies: no argument, or a word first
C12_NoArgumentRejected ==
    Parsed =>
        \A l \in {Line} : \A tag \in {"p", "r"} :
            l \in {<<tag>>, <<tag, " ", "x">>} => parsed.ret = EINVAL

-----------------------------------------------------------------------------
(* C13 *)

\* A firing is pending with the delay d and nothing else is
PendingAfter(w, d) == w = [pending |-> TRUE, delay |-> d]

\* C13: a firing that parses a wait command with duration d does not invoke
\* the sink and leaves one firing pending after d ms; a firing with a
\* callback registered that parses a press or release command invokes the
\* callback once, with the arguments of the command, and leaves one firing
\* pending after delay_ms; in both cases the callback stays registered and the
\* process keeps running.
C13_TickReschedules ==
    [][last'.op = "tick" =>
         /\ parsed'.ret = "w" =>
                /\ sink' = sink
                /\ PendingAfter(work', parsed'.args[1])
                /\ callback' = callback /\ proc' = RUNNING
         /\ (parsed'.ret \in {"p", "r"} /\ callback # NULL_CB) =>
                /\ sink' = Append(sink, Invocation(callback, parsed'))
                /\ PendingAfter(work', delay_ms)
                /\ callback' = callback /\ proc' = RUNNING]_vars

C13_Witness ==
    /\ Ticked /\ parsed = [ret |-> "w", args |-> <<50, -1>>]
    /\ PendingAfter(work, 50) /\ callback # NULL_CB /\ Len(sink) = 1
    /\ proc = RUNNING

C13_WitnessPress ==
    /\ Ticked /\ parsed = [ret |-> "r", args |-> <<1, 2>>]
    /\ PendingAfter(work, delay_ms) /\ Len(sink) = 2 /\ ~sink[2].press
    /\ Len(consumed) = 3 /\ consumed[2] = <<"w", " ", "5", "0">>

-----------------------------------------------------------------------------
(* C14 *)

\* C14: a firing whose line the parser rejects with -EINVAL invokes no
\* callback, leaves no firing pending, leaves cmd_idx as it was and the
\* process running; while no firing is pending the next step is not a firing,
\* a firing becomes pending again only by configure or enable, and the read
\* position moves only in a firing: the lines after the rejected one stay
\* unread until such a call.
C14_InvalidHalts ==
    /\ [][(last'.op = "tick" /\ parsed'.ret = EINVAL) =>
            /\ sink' = sink
            /\ ~work'.pending
            /\ cmd_idx' = cmd_idx
            /\ proc' = RUNNING]_vars
    /\ [][~work.pending =>
            /\ last'.op # "tick"
            /\ uart_pos' = uart_pos /\ sink' = sink
            /\ work'.pending => last'.op \in {"configure", "enable"}]_vars

C14_Witness ==
    /\ Ticked /\ parsed.ret = EINVAL /\ TickLine = <<"x", " ", "1", " ", "2">>
    /\ ~work.pending /\ proc = RUNNING /\ callback # NULL_CB /\ Len(sink) = 1
    /\ uart_pos <= Len(uart_in)

-----------------------------------------------------------------------------
(* C15 *)

\* The line that starts at position i of s
LineAt(s, i) == SubSeq(s, i, i + RunLength(s, i) - 1)

\* C15: an enable call that directly follows a disable call leaves the read
\* position where it was before the disable call, consumes nothing and leaves
\* one firing pending after delay_ms; the first firing after an enable call
\* that gets a line gets the one that starts at that read position; and as
\* long as the process runs, the lines the firings got are the lines of the
\* stream up to the read position, each once and in order.
C15_RestartResumes ==
    /\ [][(last.op = "disable" /\ last'.op = "enable") =>
            /\ uart_pos' = last.from
            /\ consumed' = consumed /\ cmd_idx' = cmd_idx
            /\ PendingAfter(work', delay_ms)]_vars
    /\ [][(last.op = "enable" /\ last'.op = "tick" /\ err' = OK) =>
            consumed' = Append(consumed, LineAt(uart_in, uart_pos))]_vars
    /\ [](proc = RUNNING => consumed = LinesRead)

\* An enable call, after a wait command left a firing pending after 50 ms that
\* a disable call cancelled, with lines read and lines left
C15_Witness ==
    /\ last.op = "enable" /\ parsed = [ret |-> "w", args |-> <<50, -1>>]
    /\ PendingAfter(work, delay_ms)
    /\ Len(consumed) = 2 /\ uart_pos <= Len(uart_in)

-----------------------------------------------------------------------------
(* C16 *)

\* C16: a disable call leaves no firing pending and changes neither the
\* callback, cmd_idx, the read position, the lines consumed, the sink nor the
\* process; with no firing pending it changes nothing at all of the driver's
\* state; and from a state with no firing pending the next step is not a
\* firing and invokes no callback.
C16_StopOnlyCancels ==
    /\ [][last'.op = "disable" =>
            /\ ~work'.pending
            /\ callback' = callback /\ cmd_idx' = cmd_idx
            /\ uart_pos' = uart_pos /\ uart_in' = uart_in /\ consumed' = consumed
            /\ sink' = sink /\ proc' = proc /\ exit_after' = exit_after
            /\ ~work.pending => work' = work]_vars
    /\ [][(last.op = "disable" \/ ~work.pending) =>
            (last'.op # "tick" /\ sink' = sink)]_vars

\* A disable call that cancelled the firing a release command left pending,
\* with lines left to read
C16_Witness ==
    /\ last.op = "disable" /\ ~work.pending
    /\ parsed.ret = "r" /\ callback # NULL_CB /\ cmd_idx = 2 /\ Len(sink) = 1
    /\ uart_pos <= Len(uart_in) /\ proc = RUNNING

-----------------------------------------------------------------------------
(* C17 *)

\* The latest call of recv_line polled a unit for which uart_poll_in failed:
\* the run it read is short enough for the poll after it to take place.
PolledFault == Run <= MAX_CMD_LEN - 1 /\ RunEnd = FAULT

\* C17: when uart_poll_in fails, recv_line returns an error other than
\* -ENODATA and -EOVERFLOW, whether or not characters were stored before; it
\* returns neither 0 with the characters stored so far nor -ENODATA.
C17_FaultPropagated ==
    (LineRead /\ PolledFault) => err \notin {OK, ENODATA, EOVERFLOW}

\* What recv_line does when uart_poll_in fails: -ENODATA with nothing stored,
\* else 0 with the characters stored so far.
C17_FaultEndsLine ==
    (LineRead /\ PolledFault) =>
        IF Run = 0 THEN err = ENODATA
        ELSE ReturnedLine(SubSeq(uart_in, last.from, last.from + Run - 1))

\* recv_line returns nothing but 0, -ENODATA and -EOVERFLOW
C17_ThreeResults == LineRead => err \in {OK, ENODATA, EOVERFLOW}

-----------------------------------------------------------------------------
(* C18 *)

\* The number of lines among ls that the parser accepts
AcceptedCount(ls) ==
    Cardinality({i \in 1..Len(ls) :
                    kscan_parse_command(ls[i], InitialArgs).ret \in {"p", "r", "w"}})

-----------------------------------------------------------------------------
(* C19 *)

\* No callback is registered
Unarmed == callback = NULL_CB

\* C19: while no callback is registered no firing is pending, no firing has
\* run and the callback pointer has not been called: an enable call made
\* before any configure call schedules nothing.
C19_NoFiringWhileUnarmed ==
    Unarmed => (~work.pending /\ ~Ticked /\ proc # CRASHED /\ sink = <<>>)

\* What the driver does instead: a firing with no callback registered that
\* reads a press or release command calls the null pointer
C19_NullCallbackCalled ==
    [][(last'.op = "tick" /\ Unarmed /\ parsed'.ret \in {"p", "r"}) =>
          proc' = CRASHED]_vars

-----------------------------------------------------------------------------
(* C20 *)

\* Everything of the driver but the callback and the work item is unchanged
\* by this step
ConfigureFrame ==
    /\ cmd_idx' = cmd_idx /\ uart_pos' = uart_pos /\ uart_in' = uart_in
    /\ sink' = sink /\ consumed' = consumed /\ proc' = proc
    /\ exit_after' = exit_after

\* A configure call with a null callback: -EINVAL, nothing changed
ConfigureNull ==
    (last'.op = "configure" /\ last'.ret = EINVAL) =>
        (callback' = callback /\ work' = work /\ ConfigureFrame)

C20_WitnessNull ==
    /\ last.op = "configure" /\ last.ret = EINVAL /\ callback = "sink_a"
    /\ PendingAfter(work, delay_ms) /\ Len(sink) = 1

=============================================================================
